---------------------------- MODULE Spec2Model ----------------------------
(***************************************************************************)
(* A model of the memory bandwidth profiler of src/main.c: the samplers    *)
(* timeit and timeitp, the OpenMP parallel region of timeitp with its two  *)
(* barriers and master blocks, and main's two passes over the catalogue.   *)
(*                                                                         *)
(* Sizes are scaled: the buffer is BYTES_PER_GB bytes and a page is        *)
(* PAGE_SIZE bytes, both small numbers.  The clock counts ticks; since the *)
(* code only ever subtracts two readings of one sample (main.c:75, 101),   *)
(* the model moves the clock's origin to the head of each sample.          *)
(* The kernels' bodies (functions.h) touch no state of main.c; a kernel    *)
(* invocation is one step that records the range it was handed.            *)
(*                                                                         *)
(* The build modelled defines WITH_OPENMP and neither __SSE4_1__ nor       *)
(* __AVX__, and keeps assert (no NDEBUG).  A parallel region runs with     *)
(* exactly omp_get_max_threads() threads, thread 0 being the main thread.  *)
(* Of stdout the model keeps each line's kernel and pass, and the          *)
(* bandwidth of the line printed last.                                     *)
(***************************************************************************)
EXTENDS Integers, Sequences, FiniteSets, TLC

\* ------------------------------------------------------------ bounds
\* Scaled value of BYTES_PER_GB (main.c:26); the buffer is 1 * BYTES_PER_GB.
BYTES_PER_GB == 16
\* Scaled value of PAGE_SIZE (main.c:29).
PAGE_SIZE == 2
\* Largest omp_get_max_threads() (OMP_NUM_THREADS) of a whole run of main,
\* explored under every interleaving.
MaxThreads == 2
\* Largest omp_get_max_threads() of a single call of timeitp, explored
\* under every interleaving.
MaxTeam == 3
\* A single call of timeitp is explored with SIZE from MAX_SIZE - MaxSlack
\* to MAX_SIZE.
MaxSlack == 3
\* Largest omp_get_max_threads() of a whole run of main explored under one
\* schedule of the threads.
MaxWide == 20
\* Ticks the clock may advance within one sample.
MaxClock == 2

\* ------------------------------------------------- program constants
SAMPLES == 5
TIMES == 5
MAX_SIZE == 1 * BYTES_PER_GB

\* double min = INFINITY: larger than every elapsed time of the model.
INFINITY == MaxClock + 1
\* The value of a local of the sample loop that has not been assigned in
\* this iteration (double before, after, total;).
Indeterminate == 0 - 1

\* Build flags of the catalogue (#ifdef __SSE4_1__, __AVX__, WITH_OPENMP).
HAVE_SSE4_1 == FALSE
HAVE_AVX == FALSE
WITH_OPENMP == TRUE

\* The kernels main times, in order, the same list in both passes.
Catalogue ==
    <<"read_memory_rep_lodsq", "read_memory_loop">>
    \o (IF HAVE_SSE4_1 THEN <<"read_memory_sse">> ELSE <<>>)
    \o (IF HAVE_AVX THEN <<"read_memory_avx", "read_memory_prefetch_avx">> ELSE <<>>)
    \o <<"write_memory_loop", "write_memory_rep_stosq">>
    \o (IF HAVE_SSE4_1 THEN <<"write_memory_sse", "write_memory_nontemporal_sse">> ELSE <<>>)
    \o (IF HAVE_AVX THEN <<"write_memory_avx", "write_memory_nontemporal_avx">> ELSE <<>>)
    \o <<"write_memory_memset">>

NKernels == Len(Catalogue)

\* ------------------------------------------------------------- state
VARIABLES
    T,          \* omp_get_max_threads(), fixed for the run
    SIZE,       \* static unsigned long long SIZE
    pass,       \* "single" | "multi": which half of main is running
    k,          \* index in Catalogue of the kernel being timed
    pcm,        \* position of the main thread
    i,          \* sample counter of timeit / timeitp
    j,          \* j[t]: pass counter of thread t (thread 0 in timeit)
    min,        \* double min
    before,     \* double before
    after,      \* double after
    total,      \* double total
    chunk_size, \* size_t chunk_size of timeitp
    tpc,        \* tpc[t]: position of thread t in the parallel region
    clock,      \* the monotonic clock, in ticks since the sample's head
    out,        \* stdout: the lines printed, <<name, omp>> each
    printed,    \* what the sampler printed: to_bw's arguments and its value
    reads,      \* this sample's clock readings, <<thread, variable>> each
    kcalls,     \* kcalls[t]: kernel invocations of thread t in this sample
    ranges,     \* ranges handed to the kernel in this sample, <<t, off, len>>
    handed,     \* bytes handed to the kernel in this sample, all threads
    elapsed,    \* the Sample Set: the totals of this call's samples, as a set
    nsamples    \* the number of samples this call has finished

vars == <<T, SIZE, pass, k, pcm, i, j, min, before, after, total, chunk_size,
          tpc, clock, out, printed, reads, kcalls, ranges, handed, elapsed,
          nsamples>>

Threads == 0 .. (T - 1)

\* The value of printed while the running sampler has printed nothing.
NoLine == <<>>


\* ----------------------------------------------------- pure functions
RECURSIVE GCD(_, _)
GCD(a, b) == IF b = 0 THEN a ELSE GCD(b, a % b)

\* to_bw: (bytes / BYTES_PER_GB) / secs, GiB per second.  The double is kept
\* as a fraction <<numerator, denominator>> in lowest terms; a division by
\* zero gives <<1, 0>> (inf), or <<0, 0>> (NaN) for 0 / 0.
to_bw(bytes, secs) ==
    LET d == BYTES_PER_GB * secs
        g == GCD(bytes, d)
    IN  IF d = 0
        THEN (IF bytes = 0 THEN <<0, 0>> ELSE <<1, 0>>)
        ELSE <<bytes \div g, d \div g>>

\* Mutant: the assert compiled out.
DivisibleAssertOff(S, n) == TRUE

\* assert(SIZE % omp_get_max_threads() == 0)
DivisibleAssert(S, n) == S % n = 0

\* size_t chunk_size = SIZE / omp_get_max_threads()
ChunkSize(S, n) == S \div n

\* Mutant: the chunk index off by one.
ChunkOffsetNext(cs, t) == cs * (t + 1)

\* &array[chunk_size * omp_get_thread_num()]: the offset in the buffer
ChunkOffset(cs, t) == cs * t

\* Mutant: the page count rounded up.
NPagesPerThreadUp(n) == ((MAX_SIZE \div n) \div PAGE_SIZE) + 1

\* npages_per_thread = (MAX_SIZE / omp_get_max_threads()) / PAGE_SIZE
NPagesPerThread(n) == (MAX_SIZE \div n) \div PAGE_SIZE

\* Mutant: SIZE rounded to whole pages only, not to pages per thread.
RoundedSizePages(n) == PAGE_SIZE * (MAX_SIZE \div PAGE_SIZE)

\* SIZE = PAGE_SIZE * npages_per_thread * omp_get_max_threads()
RoundedSize(n) == PAGE_SIZE * NPagesPerThread(n) * n

\* Mutant: the master pragma missing, every thread runs the block.
IsMasterAny(t) == TRUE

\* #pragma omp master: the block runs on thread 0 of the team only
IsMaster(t) == t = 0

\* total = after - before
Elapsed(a, b) == a - b

\* Mutant: the comparison missing, min is the last sample.
MinUpdateLast(m, tot) == tot

\* if (total < min) min = total
MinUpdate(m, tot) == IF tot < m THEN tot ELSE m

\* Mutant: one thread's bytes reported instead of all threads'.
ReportBytesChunk == chunk_size * TIMES

\* SIZE * TIMES, the byte count both samplers hand to to_bw
ReportBytes == SIZE * TIMES

\* The call to_bw(bytes, secs) of a sampler's printf.
Report(bytes, secs) == [bytes |-> bytes, secs |-> secs, bw |-> to_bw(bytes, secs)]

\* The positions of a thread in the parallel region, in program order.
Order == <<"idle", "start", "b1", "m1", "loop", "b2", "m2", "end">>
Rank(p) == CHOOSE n \in 1 .. Len(Order) : Order[n] = p

\* Mutant: the barrier missing.
BarrierNone(b) == TRUE

\* Mutant: a barrier that waits for the others to have left it.
BarrierStrict(b) == \A u \in Threads : Rank(tpc[u]) > Rank(b)

\* #pragma omp barrier: a thread leaves barrier b once every thread of the
\* team has arrived at it.
BarrierOpen(b) == \A u \in Threads : Rank(tpc[u]) >= Rank(b)

\* The bytes of a range handed to a kernel.
Bytes(off, len) == off .. (off + len - 1)

\* ----------------------------------------------------------- initial
\* The sampler's state before main's first call of it.
Fresh ==
    /\ pcm = "call"
    /\ i = 0
    /\ j = [t \in Threads |-> 0]
    /\ min = INFINITY
    /\ before = Indeterminate
    /\ after = Indeterminate
    /\ total = Indeterminate
    /\ chunk_size = 0
    /\ tpc = [t \in Threads |-> "idle"]
    /\ clock = 0
    /\ out = <<>>
    /\ printed = NoLine
    /\ reads = <<>>
    /\ kcalls = [t \in Threads |-> 0]
    /\ ranges = {}
    /\ handed = 0
    /\ elapsed = {}
    /\ nsamples = 0

\* main at its first timefun: SIZE = MAX_SIZE, any thread count.
Init ==
    /\ T \in 1 .. MaxThreads
    /\ SIZE = MAX_SIZE
    /\ pass = "single"
    /\ k = 1
    /\ Fresh

\* The same, for the thread counts explored under one schedule.
InitWide ==
    /\ T \in 1 .. MaxWide
    /\ SIZE = MAX_SIZE
    /\ pass = "single"
    /\ k = 1
    /\ Fresh

\* A call of timeitp on its own, for the last kernel of the catalogue (main's
\* last timefunp), with any SIZE near MAX_SIZE and any thread count.
InitP ==
    /\ T \in 1 .. MaxTeam
    /\ SIZE \in (MAX_SIZE - MaxSlack) .. MAX_SIZE
    /\ pass = "multi"
    /\ k = NKernels
    /\ Fresh

\* ---------------------------------------------------------- main
\* timefun(f) / timefunp(f): enter the sampler; double min = INFINITY; i = 0.
\* The locals of the sample loop do not exist yet and nothing has been
\* handed to a kernel by this call.
Call ==
    /\ pcm = "call"
    /\ pcm' = IF pass = "single" THEN "s_head" ELSE "p_head"
    /\ min' = INFINITY
    /\ i' = 0
    /\ before' = Indeterminate
    /\ after' = Indeterminate
    /\ total' = Indeterminate
    /\ elapsed' = {}
    /\ nsamples' = 0
    /\ printed' = NoLine
    /\ reads' = <<>>
    /\ kcalls' = [t \in Threads |-> 0]
    /\ ranges' = {}
    /\ handed' = 0
    /\ UNCHANGED <<T, SIZE, pass, k, j, chunk_size, tpc, clock, out>>

\* Where main goes after the sampler for Catalogue[k] returns.
AfterReturn ==
    IF k < NKernels THEN /\ k' = k + 1
                         /\ pcm' = "call"
    ELSE IF pass = "single" /\ WITH_OPENMP THEN /\ k' = k
                                                /\ pcm' = "resize"
    ELSE /\ k' = k
         /\ pcm' = "done"

\* The start of the multi-core half: SIZE is rounded for the thread count.
Resize ==
    /\ pcm = "resize"
    /\ SIZE' = RoundedSize(T)
    /\ pass' = "multi"
    /\ k' = 1
    /\ pcm' = "call"
    /\ UNCHANGED <<T, i, j, min, before, after, total, chunk_size, tpc, clock,
                   out, printed, reads, kcalls, ranges, handed, elapsed, nsamples>>

\* Time passes while a sample runs.
Tick ==
    /\ pcm \in {"s_loop", "p_region"}
    /\ clock < MaxClock
    /\ clock' = clock + 1
    /\ UNCHANGED <<T, SIZE, pass, k, pcm, i, j, min, before, after, total,
                   chunk_size, tpc, out, printed, reads, kcalls, ranges,
                   handed, elapsed, nsamples>>

\* ---------------------------------------------------------- timeit
\* The head of a sample: before = monotonic_time(); j = 0
SHead ==
    /\ pcm = "s_head"
    /\ i < SAMPLES
    /\ clock' = 0
    /\ before' = clock'
    /\ after' = Indeterminate
    /\ total' = Indeterminate
    /\ reads' = << <<0, "before">> >>
    /\ j' = [j EXCEPT ![0] = 0]
    /\ kcalls' = [t \in Threads |-> 0]
    /\ ranges' = {}
    /\ handed' = 0
    /\ pcm' = "s_loop"
    /\ UNCHANGED <<T, SIZE, pass, k, i, min, chunk_size, tpc, out, printed,
                   elapsed, nsamples>>

\* function(array, SIZE); j++
SKernel ==
    /\ pcm = "s_loop"
    /\ j[0] < TIMES
    /\ ranges' = ranges \cup {<<0, 0, SIZE>>}
    /\ kcalls' = [kcalls EXCEPT ![0] = @ + 1]
    /\ handed' = handed + SIZE
    /\ j' = [j EXCEPT ![0] = @ + 1]
    /\ UNCHANGED <<T, SIZE, pass, k, pcm, i, min, before, after, total,
                   chunk_size, tpc, clock, out, printed, reads, elapsed, nsamples>>

\* after = monotonic_time(); total = after - before; the min update; i++
SAfter ==
    /\ pcm = "s_loop"
    /\ j[0] >= TIMES
    /\ after' = clock
    /\ reads' = Append(reads, <<0, "after">>)
    /\ total' = Elapsed(after', before)
    /\ min' = MinUpdate(min, total')
    /\ elapsed' = elapsed \cup {total'}
    /\ nsamples' = nsamples + 1
    /\ i' = i + 1
    /\ pcm' = "s_head"
    /\ UNCHANGED <<T, SIZE, pass, k, j, before, chunk_size, tpc, clock, out,
                   printed, kcalls, ranges, handed>>

\* printf("%32s: %5.2f GiB/s\n", name, to_bw(SIZE * TIMES, min)); return
SPrint ==
    /\ pcm = "s_head"
    /\ i >= SAMPLES
    /\ out' = Append(out, <<Catalogue[k], FALSE>>)
    /\ printed' = Report(ReportBytes, min)
    /\ AfterReturn
    /\ UNCHANGED <<T, SIZE, pass, i, j, min, before, after, total, chunk_size,
                   tpc, clock, reads, kcalls, ranges, handed, elapsed, nsamples>>

\* --------------------------------------------------------- timeitp
\* The head of a sample: the assert, chunk_size, and the fork of the
\* parallel region with omp_get_max_threads() threads.  A failed assert
\* aborts the process.
PHead ==
    /\ pcm = "p_head"
    /\ i < SAMPLES
    /\ IF DivisibleAssert(SIZE, T)
       THEN /\ chunk_size' = ChunkSize(SIZE, T)
            /\ tpc' = [t \in Threads |-> "start"]
            /\ pcm' = "p_region"
            /\ clock' = 0
            /\ before' = Indeterminate
            /\ after' = Indeterminate
            /\ total' = Indeterminate
            /\ reads' = <<>>
            /\ kcalls' = [t \in Threads |-> 0]
            /\ ranges' = {}
            /\ handed' = 0
       ELSE /\ pcm' = "aborted"
            /\ UNCHANGED <<chunk_size, tpc, clock, before, after, total, reads,
                           kcalls, ranges, handed>>
    /\ UNCHANGED <<T, SIZE, pass, k, i, j, min, out, printed, elapsed, nsamples>>

\* A thread of the team arrives at the first #pragma omp barrier.
Arrive1(t) ==
    /\ tpc[t] = "start"
    /\ tpc' = [tpc EXCEPT ![t] = "b1"]
    /\ UNCHANGED <<T, SIZE, pass, k, pcm, i, j, min, before, after, total,
                   chunk_size, clock, out, printed, reads, kcalls, ranges,
                   handed, elapsed, nsamples>>

\* It leaves the first barrier.  #pragma omp master: thread 0 goes on to the
\* block that reads the clock, every other thread skips it and enters the
\* loop (j = 0).  The master construct has no barrier of its own.
Pass1(t) ==
    /\ tpc[t] = "b1"
    /\ BarrierOpen("b1")
    /\ IF IsMaster(t)
       THEN /\ tpc' = [tpc EXCEPT ![t] = "m1"]
            /\ j' = j
       ELSE /\ tpc' = [tpc EXCEPT ![t] = "loop"]
            /\ j' = [j EXCEPT ![t] = 0]
    /\ UNCHANGED <<T, SIZE, pass, k, pcm, i, min, before, after, total,
                   chunk_size, clock, out, printed, reads, kcalls, ranges,
                   handed, elapsed, nsamples>>

\* before = monotonic_time();  then j = 0
Master1(t) ==
    /\ tpc[t] = "m1"
    /\ before' = clock
    /\ reads' = Append(reads, <<t, "before">>)
    /\ j' = [j EXCEPT ![t] = 0]
    /\ tpc' = [tpc EXCEPT ![t] = "loop"]
    /\ UNCHANGED <<T, SIZE, pass, k, pcm, i, min, after, total, chunk_size,
                   clock, out, printed, kcalls, ranges, handed, elapsed,
                   nsamples>>

\* function(&array[chunk_size * omp_get_thread_num()], chunk_size); j++
PKernel(t) ==
    /\ tpc[t] = "loop"
    /\ j[t] < TIMES
    /\ ranges' = ranges \cup {<<t, ChunkOffset(chunk_size, t), chunk_size>>}
    /\ kcalls' = [kcalls EXCEPT ![t] = @ + 1]
    /\ handed' = handed + chunk_size
    /\ j' = [j EXCEPT ![t] = @ + 1]
    /\ UNCHANGED <<T, SIZE, pass, k, pcm, i, min, before, after, total,
                   chunk_size, tpc, clock, out, printed, reads, elapsed, nsamples>>

\* The loop is over: the thread arrives at the second #pragma omp barrier.
Arrive2(t) ==
    /\ tpc[t] = "loop"
    /\ j[t] >= TIMES
    /\ tpc' = [tpc EXCEPT ![t] = "b2"]
    /\ UNCHANGED <<T, SIZE, pass, k, pcm, i, j, min, before, after, total,
                   chunk_size, clock, out, printed, reads, kcalls, ranges,
                   handed, elapsed, nsamples>>

\* It leaves the second barrier.  #pragma omp master: thread 0 goes on to
\* the block that reads the clock, every other thread skips it and reaches
\* the end of the region.
Pass2(t) ==
    /\ tpc[t] = "b2"
    /\ BarrierOpen("b2")
    /\ tpc' = [tpc EXCEPT ![t] = IF IsMaster(t) THEN "m2" ELSE "end"]
    /\ UNCHANGED <<T, SIZE, pass, k, pcm, i, j, min, before, after, total,
                   chunk_size, clock, out, printed, reads, kcalls, ranges,
                   handed, elapsed, nsamples>>

\* after = monotonic_time();  then the end of the region
Master2(t) ==
    /\ tpc[t] = "m2"
    /\ after' = clock
    /\ reads' = Append(reads, <<t, "after">>)
    /\ tpc' = [tpc EXCEPT ![t] = "end"]
    /\ UNCHANGED <<T, SIZE, pass, k, pcm, i, j, min, before, total, chunk_size,
                   clock, out, printed, kcalls, ranges, handed, elapsed,
                   nsamples>>

\* The implicit barrier and join at the end of the parallel region, then
\* total = after - before; the min update; i++
Join ==
    /\ pcm = "p_region"
    /\ \A t \in Threads : tpc[t] = "end"
    /\ tpc' = [t \in Threads |-> "idle"]
    /\ total' = Elapsed(after, before)
    /\ min' = MinUpdate(min, total')
    /\ elapsed' = elapsed \cup {total'}
    /\ nsamples' = nsamples + 1
    /\ i' = i + 1
    /\ pcm' = "p_head"
    /\ UNCHANGED <<T, SIZE, pass, k, j, before, after, chunk_size, clock, out,
                   printed, reads, kcalls, ranges, handed>>

\* printf("%28s_omp: %5.2f GiB/s\n", name, to_bw(SIZE * TIMES, min)); return
PPrint ==
    /\ pcm = "p_head"
    /\ i >= SAMPLES
    /\ out' = Append(out, <<Catalogue[k], TRUE>>)
    /\ printed' = Report(ReportBytes, min)
    /\ AfterReturn
    /\ UNCHANGED <<T, SIZE, pass, i, j, min, before, after, total, chunk_size,
                   tpc, clock, reads, kcalls, ranges, handed, elapsed, nsamples>>

\* One step of thread t inside the parallel region.
ThreadStep(t) ==
    \/ Arrive1(t)
    \/ Pass1(t)
    \/ Master1(t)
    \/ PKernel(t)
    \/ Arrive2(t)
    \/ Pass2(t)
    \/ Master2(t)

\* One step of the main thread outside the parallel region.
MainStep ==
    \/ Call
    \/ Resize
    \/ SHead
    \/ SKernel
    \/ SAfter
    \/ SPrint
    \/ PHead
    \/ Join
    \/ PPrint

Next ==
    \/ MainStep
    \/ Tick
    \/ \E t \in Threads : ThreadStep(t)

Spec == Init /\ [][Next]_vars

\* The steps of a call of timeitp.
NextP ==
    \/ Call
    \/ PHead
    \/ Join
    \/ PPrint
    \/ Tick
    \/ \E t \in Threads : ThreadStep(t)

SpecP == InitP /\ [][NextP]_vars

\* A whole run under one schedule: the lowest-numbered thread that can take
\* a step takes it, and no time passes.
NextWide ==
    \/ MainStep
    \/ \E t \in Threads :
          /\ \A u \in 0 .. (t - 1) : ~ ENABLED ThreadStep(u)
          /\ ThreadStep(t)

SpecWide == InitWide /\ [][NextWide]_vars

\* Every thread that can take a step eventually takes one.
Fairness ==
    /\ WF_vars(MainStep)
    /\ \A t \in 0 .. (MaxThreads - 1) : WF_vars(t \in Threads /\ ThreadStep(t))

FairSpec == Spec /\ Fairness

\* ------------------------------------------------------------ claims
\* The threads that have been handed a range in this sample.
Served == {r[1] : r \in ranges}

\* The bytes of the ranges handed out in this sample.
Covered == UNION {Bytes(r[2], r[3]) : r \in ranges}

\* A call of timeitp is running, or has returned and main has not gone on to
\* the next call: the samples' records are those of timeitp.
InTimeitp == pass = "multi" /\ pcm # "call"

\* The same for timeit.
InTimeit == pass = "single" /\ pcm # "call"

\* timeitp has finished a sample and not begun the next one.
SampleDoneP ==
    /\ pass = "multi"
    /\ \/ pcm = "p_region" /\ \A t \in Threads : tpc[t] = "end"
       \/ pcm \in {"p_head", "done"} /\ total # Indeterminate

\* C1: in timeitp, when SIZE is a multiple of the thread count T, thread t is
\* handed the bytes [t * (SIZE/T), (t+1) * (SIZE/T)); the ranges of different
\* threads are disjoint and, once every thread has been handed its range,
\* they cover exactly [0, SIZE).
C1_Partition ==
    (InTimeitp /\ SIZE % T = 0) =>
        /\ \A r \in ranges :
              Bytes(r[2], r[3]) = (r[1] * (SIZE \div T)) .. ((r[1] + 1) * (SIZE \div T) - 1)
        /\ \A r, q \in ranges :
              r[1] # q[1] => Bytes(r[2], r[3]) \cap Bytes(q[2], q[3]) = {}
        /\ Served = Threads => Covered = 0 .. (SIZE - 1)

C1_Witness ==
    /\ pass = "multi"
    /\ T = 3
    /\ SIZE % T = 0
    /\ SIZE > 0
    /\ Served = Threads
    /\ Cardinality(ranges) = 3

\* C3: in a sample of timeitp the clock is read by thread 0 only, at most
\* twice: first into before, after every thread has arrived at the entry
\* barrier, then into after, after every thread has arrived at the exit
\* barrier; before and after are written by these readings only, and a
\* finished sample has made both.
C3_ClockReads ==
    InTimeitp =>
        /\ reads \in {<<>>, << <<0, "before">> >>, << <<0, "before">>, <<0, "after">> >>}
        /\ (before # Indeterminate) <=> (Len(reads) >= 1)
        /\ (after # Indeterminate) <=> (Len(reads) = 2)
        /\ (pcm = "p_region" /\ Len(reads) >= 1) =>
              \A t \in Threads : Rank(tpc[t]) >= Rank("b1")
        /\ (pcm = "p_region" /\ Len(reads) = 2) =>
              \A t \in Threads : Rank(tpc[t]) >= Rank("b2")
        /\ SampleDoneP => Len(reads) = 2

C3_Witness ==
    /\ pass = "multi"
    /\ T = 3
    /\ pcm = "p_region"
    /\ \A t \in Threads : tpc[t] = "end"
    /\ Len(reads) = 2

\* C4: in a sample of timeitp, after is captured only once every thread of
\* the team has made all TIMES kernel invocations on its chunk.
C4_AfterCoversAll ==
    (InTimeitp /\ after # Indeterminate) =>
        \A t \in Threads : kcalls[t] = TIMES

C4_Witness ==
    /\ pass = "multi"
    /\ T = 3
    /\ pcm = "p_region"
    /\ after # Indeterminate
    /\ \E t \in Threads : tpc[t] = "b2"

\* C7: if SIZE is not a multiple of the thread count when timeitp starts a
\* sample, the run aborts there: the program is never past the head of
\* that first sample other than aborted, no kernel is invoked, no clock
\* reading is taken and no line is printed.
C7_AbortOnIndivisible ==
    (pass = "multi" /\ SIZE % T # 0) =>
        /\ pcm \in {"call", "p_head", "aborted"}
        /\ pcm = "p_head" => i = 0
        /\ \A t \in Threads : kcalls[t] = 0
        /\ ranges = {}
        /\ handed = 0
        /\ reads = <<>>
        /\ before = Indeterminate
        /\ after = Indeterminate
        /\ out = <<>>
        /\ printed = NoLine

C7_Witness ==
    /\ pass = "multi"
    /\ T = 3
    /\ SIZE % T # 0
    /\ pcm = "aborted"

\* C9: in a sample of timeitp no thread makes a kernel invocation before
\* thread 0 has captured before.
C9_NoKernelBeforeBefore ==
    (InTimeitp /\ \E t \in Threads : kcalls[t] > 0) => before # Indeterminate

\* C2: in the multi-core pass SIZE is
\* PAGE_SIZE * ((MAX_SIZE / T) / PAGE_SIZE) * T, which is the largest multiple of PAGE_SIZE * T
\* that does not exceed MAX_SIZE; every chunk handed out has the length
\* SIZE / T, T of them make SIZE, and every chunk's offset and length are
\* multiples of PAGE_SIZE.
C2_RoundedSize ==
    pass = "multi" =>
        /\ SIZE = PAGE_SIZE * ((MAX_SIZE \div T) \div PAGE_SIZE) * T
        /\ SIZE % (PAGE_SIZE * T) = 0
        /\ SIZE <= MAX_SIZE
        /\ SIZE + PAGE_SIZE * T > MAX_SIZE
        /\ InTimeitp => \A r \in ranges :
              /\ r[3] = SIZE \div T
              /\ r[3] * T = SIZE
              /\ r[2] % PAGE_SIZE = 0
              /\ r[3] % PAGE_SIZE = 0

C2_Witness ==
    /\ pass = "multi"
    /\ T = 3
    /\ 0 < SIZE
    /\ SIZE < MAX_SIZE
    /\ Served = Threads

\* A sampler has printed its line and main has not yet changed SIZE.
JustPrinted ==
    /\ printed # NoLine
    /\ pass = "single" \/ Len(out) > NKernels

\* The threads that run the kernel: the main thread in timeit, the team in
\* timeitp.
Workers == IF pass = "single" THEN {0} ELSE Threads

\* The least element of a nonempty set of numbers.
Least(S) == CHOOSE x \in S : \A y \in S : x <= y

\* C5: a sampler makes exactly SAMPLES samples; a finished sample has read
\* before, then made TIMES kernel invocations per thread, then read after,
\* and its elapsed time is after - before; the line printed reports
\* to_bw(SIZE * TIMES, m) where m is the least of the SAMPLES elapsed times.
C5_MinOfSamples ==
    /\ i <= SAMPLES
    /\ pcm # "call" => nsamples = i
    /\ (pcm \in {"s_head", "p_head"} /\ i > 0) =>
          /\ reads = << <<0, "before">>, <<0, "after">> >>
          /\ \A t \in Workers : kcalls[t] = TIMES
          /\ total = after - before
          /\ total \in elapsed
    /\ JustPrinted =>
          /\ nsamples = SAMPLES
          /\ printed.secs = Least(elapsed)
          /\ printed.bytes = SIZE * TIMES
          /\ IF printed.secs > 0
             THEN /\ printed.bw[2] > 0
                  /\ printed.bw[1] * BYTES_PER_GB * printed.secs = printed.bw[2] * SIZE * TIMES
             ELSE printed.bw[2] = 0

C5_Witness ==
    /\ pass = "single"
    /\ JustPrinted
    /\ elapsed = {1, 2}
    /\ total = 2
    /\ printed.secs = 1

\* C6: the byte count a sampler reports, SIZE * TIMES, is the number of bytes
\* handed to the kernel in one sample by all threads together: T threads
\* times TIMES invocations times chunk_size in timeitp, TIMES invocations of
\* SIZE bytes in timeit.
C6_ReportedBytes ==
    JustPrinted =>
        /\ printed.bytes = SIZE * TIMES
        /\ printed.bytes = handed
        /\ pass = "multi" => handed = T * TIMES * chunk_size
        /\ pass = "single" => handed = TIMES * SIZE

C6_Witness ==
    /\ pass = "multi"
    /\ JustPrinted
    /\ T = 3
    /\ 0 < SIZE
    /\ SIZE < MAX_SIZE

\* C8: SIZE never exceeds MAX_SIZE, and every range handed to a kernel lies
\* inside the buffer: [0, SIZE) in the single-thread pass, thread t's
\* [t * chunk_size, (t+1) * chunk_size) in the multi-core pass.
C8_InsideBuffer ==
    /\ 0 <= SIZE
    /\ SIZE <= MAX_SIZE
    /\ \A r \in ranges :
          /\ 0 <= r[2]
          /\ 0 <= r[3]
          /\ r[2] + r[3] <= MAX_SIZE
          /\ InTimeit => r = <<0, 0, SIZE>>
          /\ InTimeitp =>
                /\ r[1] \in Threads
                /\ r[2] = r[1] * chunk_size
                /\ r[2] + r[3] = (r[1] + 1) * chunk_size
                /\ (r[1] + 1) * chunk_size <= MAX_SIZE

C8_Witness ==
    /\ pass = "multi"
    /\ T = 2
    /\ \E r \in ranges : r[1] = 1 /\ r[2] > 0 /\ r[2] + r[3] = MAX_SIZE

\* The lines of a complete run: the catalogue once per pass.
FullOutput ==
    [n \in 1 .. NKernels |-> <<Catalogue[n], FALSE>>]
    \o (IF WITH_OPENMP THEN [n \in 1 .. NKernels |-> <<Catalogue[n], TRUE>>] ELSE <<>>)

\* C10: if every thread that can take a step eventually takes one, the run
\* reaches the end of main (return 0) with one line printed for every kernel
\* of both passes: no thread is left waiting at a barrier.
C10_Terminates == <>(pcm = "done" /\ out = FullOutput)

C10_Witness ==
    /\ pcm = "done"
    /\ T = 2
    /\ out = FullOutput
    /\ Len(out) = 2 * NKernels
=============================================================================
